---- MODULE Spec2Model ----
(***************************************************************************)
(* KC3Calc.enemyFighterPower (src/library/managers/CalculatorManager.js):  *)
(* the opponent fighter-power estimate computed from master IDs only.      *)
(*                                                                         *)
(* The function is modelled as a state machine that runs one call: the     *)
(* state before the call, the test for absent ship IDs, one step per       *)
(* $.each callback up to its slot loop, one step per slot-loop iteration,  *)
(* and the final return.  JavaScript values keep their type tag, so that   *)
(* false, 0, null, undefined, {} and [] stay different values.             *)
(***************************************************************************)
EXTENDS Integers, Sequences, FiniteSets, TLC

VARIABLES enemyFleetShips, enemyShipSlots, enemySlotSizes,
          pc, shipIdx, slotIdx, shipSlots,
          totalPower, totalCapacity, noAirPowerCapacity, reconCapacity,
          exceptions, result

vars == <<enemyFleetShips, enemyShipSlots, enemySlotSizes,
          pc, shipIdx, slotIdx, shipSlots,
          totalPower, totalCapacity, noAirPowerCapacity, reconCapacity,
          exceptions, result>>

----------------------------------------------------------------------------
(* JavaScript values *)

Undefined == [t |-> "undefined"]

Null == [t |-> "null"]

False == [t |-> "boolean", b |-> FALSE]

Num(n) == [t |-> "number", n |-> n]

Str(s) == [t |-> "string", s |-> s]

Arr(a) == [t |-> "array", a |-> a]

EmptyMap == [k \in {} |-> Undefined]

Obj(m) == [t |-> "object", m |-> m]

\* ToBoolean: undefined, null, false, 0 and "" are falsy; arrays and objects
\* (the empty ones included) are truthy.
Truthy(v) ==
    CASE v.t = "undefined" -> FALSE
      [] v.t = "null"      -> FALSE
      [] v.t = "boolean"   -> v.b
      [] v.t = "number"    -> v.n # 0
      [] v.t = "string"    -> v.s # ""
      [] OTHER             -> TRUE

\* a || b
Or(a, b) == IF Truthy(a) THEN a ELSE b

\* ToNumber of the operands of +=: false is 0.
ToNumber(v) == IF v.t = "number" THEN v.n ELSE 0

\* a += b on numbers and booleans.
Plus(a, b) == Num(ToNumber(a) + ToNumber(b))

\* v[i], i counted from 0: undefined past the end of an array and for every
\* index of a value that is no array.
At(v, i) ==
    IF v.t = "array" /\ i >= 0 /\ i < Len(v.a) THEN v.a[i + 1] ELSE Undefined

IsArray(v) == v.t = "array"

\* The property key a number is converted to when it indexes an object.
ToKey(n) == <<"1", "2", "3", "4", "5", "6", "7", "8", "9">>[n]

\* obj[k] = v
Put(obj, k, v) ==
    Obj([x \in (DOMAIN obj.m) \cup {k} |-> IF x = k THEN v ELSE obj.m[x]])

\* v > 0: false for undefined.
Positive(v) == v.t = "number" /\ v.n > 0

\* Math.floor(Math.sqrt(capacity) * aaStat), for capacity, aaStat >= 0:
\* the largest r with r * r <= capacity * aaStat * aaStat.
FloorSqrtTimes(capacity, aaStat) ==
    LET n == capacity * aaStat * aaStat
    IN  CHOOSE r \in 0..n : r * r <= n /\ (r + 1) * (r + 1) > n

----------------------------------------------------------------------------
(* Master data read by the function (KC3Master, KC3GearManager) *)

isAbyssalShip(id) == id \in {2, 3}

\* KC3Master.ship: a player-side ship has slot capacities and no kc3_slots.
ship(id) ==
    IF id = 1
    THEN [t |-> "object", kc3_slots |-> Undefined,
          api_maxeq |-> Arr(<<Num(9), Num(4), Num(0)>>)]
    ELSE Undefined

\* KC3Master.abyssalShip: an abyssal ship has its known equipment and no
\* slot capacities; abyssal 3 is not in the master data.
abyssalShip(id) ==
    IF id = 2
    THEN [t |-> "object", kc3_slots |-> Arr(<<Num(1), Num(3), Num(-1)>>),
          api_maxeq |-> Undefined]
    ELSE Undefined

\* KC3Master.slotitem: 1 a fighter (anti-air 10), 2 a torpedo bomber without
\* anti-air stat, 3 a recon plane, 4 a gun (anti-air 2), 5 unknown.
slotitem(gearId) ==
    CASE gearId = 1 -> [t |-> "object", api_tyku |-> Num(10),
                        api_type |-> Arr(<<Num(3), Num(5), Num(6)>>)]
      [] gearId = 2 -> [t |-> "object", api_tyku |-> Undefined,
                        api_type |-> Arr(<<Num(3), Num(5), Num(8)>>)]
      [] gearId = 3 -> [t |-> "object", api_tyku |-> Num(0),
                        api_type |-> Arr(<<Num(3), Num(7), Num(9)>>)]
      [] gearId = 4 -> [t |-> "object", api_tyku |-> Num(2),
                        api_type |-> Arr(<<Num(1), Num(1), Num(1)>>)]
      [] OTHER      -> Undefined

antiAirFighterType2Ids == {6, 7, 8, 11, 45, 56, 57, 58}

----------------------------------------------------------------------------
(* The body of enemyFighterPower *)

\* The accumulators of one call.
Acc(p, c, n, r, e) ==
    [totalPower |-> p, totalCapacity |-> c, noAirPowerCapacity |-> n,
     reconCapacity |-> r, exceptions |-> e]

\* var totalPower = 0, as a caller expecting a number would have it.
InitialTotalPowerZero == Num(0)

\* var totalPower = false
InitialTotalPower == False

InitialAcc == Acc(InitialTotalPower, Num(0), Num(0), Num(0), Obj(EmptyMap))

\* if(!enemyFleetShips || !enemyFleetShips.length)
NoShipIdsOrEmpty(fleet) == ~Truthy(fleet) \/ fleet = Arr(<<>>)

\* if(!enemyFleetShips)
NoShipIds(fleet) == ~Truthy(fleet)

\* if(!shipId || shipId < 0)
IsPlaceholder(shipId) == ~Truthy(shipId) \/ (shipId.t = "number" /\ shipId.n < 0)

ShipMst(shipId) ==
    IF isAbyssalShip(shipId.n) THEN abyssalShip(shipId.n) ELSE ship(shipId.n)

\* (enemyShipSlots || [])[shipIdx] || shipMst.kc3_slots
ShipSlotsOf(slots, shipMst, i) == Or(At(Or(slots, Arr(<<>>)), i), shipMst.kc3_slots)

\* shipSlots.filter(id => id > 0)
RECURSIVE FilterPositive(_)
FilterPositive(s) ==
    IF s = <<>> THEN <<>>
    ELSE IF Positive(Head(s))
         THEN <<Head(s)>> \o FilterPositive(Tail(s))
         ELSE FilterPositive(Tail(s))

\* (enemySlotSizes || [])[shipIdx][slotIdx], and shipMst.api_maxeq[slotIdx]
\* for each slot the override leaves out.
CapacityPerSlot(sizes, shipMst, i, j) ==
    LET o == At(At(Or(sizes, Arr(<<>>)), i), j)
    IN  IF o.t # "undefined" THEN o ELSE At(Or(shipMst.api_maxeq, Arr(<<>>)), j)

\* ((enemySlotSizes || [])[shipIdx] || shipMst.api_maxeq || [])[slotIdx]
Capacity(sizes, shipMst, i, j) ==
    At(Or(Or(At(Or(sizes, Arr(<<>>)), i), shipMst.api_maxeq), Arr(<<>>)), j)

\* exceptions[shipId] = exceptions[shipId] || {}; exceptions[shipId][gearId] = v
SetGearException(exc, shipId, gearId, v) ==
    LET sk == ToKey(shipId.n)
        old == IF sk \in DOMAIN exc.m THEN exc.m[sk] ELSE Undefined
        cur == Or(old, Obj(EmptyMap))
    IN  Put(exc, sk, Put(cur, ToKey(gearId.n), v))

\* exceptions[shipId] = null, where the slot IDs are missing.
NoSlotsExceptionNull(exc, shipId) == Put(exc, ToKey(shipId.n), Null)

\* exceptions[shipId] = {}
NoSlotsException(exc, shipId) == Put(exc, ToKey(shipId.n), Obj(EmptyMap))

\* gearMst.api_tyku
AaStatRaw(gearMst) == gearMst.api_tyku

\* gearMst.api_tyku || 0
AaStat(gearMst) == Or(gearMst.api_tyku, Num(0))

\* totalPower = Math.floor(Math.sqrt(capacity) * aaStat)
AssignPower(power, capacity, aaStat) ==
    Num(FloorSqrtTimes(capacity.n, aaStat.n))

\* totalPower += Math.floor(Math.sqrt(capacity) * aaStat)
AddPower(power, capacity, aaStat) ==
    Plus(power, Num(FloorSqrtTimes(capacity.n, aaStat.n)))

\* totalCapacity += capacity; noAirPowerCapacity += capacity
AddNoAirPowerCounted(a, capacity) ==
    [a EXCEPT !.totalCapacity = Plus(@, capacity),
              !.noAirPowerCapacity = Plus(@, capacity)]

\* noAirPowerCapacity += capacity
AddNoAirPower(a, capacity) ==
    [a EXCEPT !.noAirPowerCapacity = Plus(@, capacity)]

\* KC3GearManager.antiAirFighterType2Ids.includes(gearMst.api_type[2])
IsFighter(gearMst) == At(gearMst.api_type, 2).n \in antiAirFighterType2Ids

\* gearMst.api_type[1] === 7, in the else branch
IsRecon(gearMst) == ~IsFighter(gearMst) /\ At(gearMst.api_type, 1) = Num(7)

\* One iteration of the slot loop: slot j of the filtered slots of ship i.
SlotBody(acc, sizes, shipId, shipMst, slots, i, j) ==
    LET gearId   == slots[j + 1]
        gearMst  == slotitem(gearId.n)
        capacity == Capacity(sizes, shipMst, i, j)
    IN  IF ~Truthy(gearMst)
        THEN [acc EXCEPT !.exceptions = SetGearException(@, shipId, gearId, Null)]
        ELSE IF IsFighter(gearMst)
        THEN LET aaStat == AaStat(gearMst)
             IN  IF capacity.t # "undefined"
                 THEN IF Positive(aaStat)
                      THEN [acc EXCEPT
                              !.totalCapacity = Plus(@, capacity),
                              !.totalPower = AddPower(@, capacity, aaStat)]
                      ELSE AddNoAirPower(acc, capacity)
                 ELSE [acc EXCEPT
                         !.exceptions = SetGearException(@, shipId, gearId, aaStat)]
        ELSE IF IsRecon(gearMst)
        THEN IF capacity.t # "undefined"
             THEN [acc EXCEPT !.reconCapacity = Plus(@, capacity)]
             ELSE [acc EXCEPT
                     !.exceptions = SetGearException(@, shipId, gearId, Str("recon"))]
        ELSE acc

\* One $.each callback up to its slot loop: the accumulators, and whether the
\* loop is entered and over which slots.
ShipHead(acc, fleet, slots, i) ==
    LET shipId  == At(fleet, i)
        shipMst == ShipMst(shipId)
        ss      == ShipSlotsOf(slots, shipMst, i)
    IN  IF IsPlaceholder(shipId)
        THEN [acc |-> acc, loop |-> FALSE, slots |-> <<>>]
        ELSE IF ~Truthy(shipMst)
        THEN [acc |-> [acc EXCEPT !.exceptions = Put(@, ToKey(shipId.n), Null)],
              loop |-> FALSE, slots |-> <<>>]
        ELSE IF ~IsArray(ss)
        THEN [acc |-> [acc EXCEPT !.exceptions = NoSlotsException(@, shipId)],
              loop |-> FALSE, slots |-> <<>>]
        ELSE [acc |-> acc, loop |-> TRUE, slots |-> FilterPositive(ss.a)]

\* The tuple returned when there are no ship IDs.
NoShipsResult(acc) ==
    <<acc.totalPower, acc.totalCapacity, Put(acc.exceptions, "ship", Null)>>

\* The tuple returned after the scan.
ScanResult(acc) ==
    <<acc.totalPower, acc.totalCapacity, acc.noAirPowerCapacity,
      acc.reconCapacity, acc.exceptions>>

----------------------------------------------------------------------------
(* The calls explored *)

MaxShips == 2

ShipIdChoices == {Num(-1), Num(0), Num(1), Num(2), Num(3)}

SlotChoices ==
    {Undefined, Obj(EmptyMap),
     Arr(<<Num(1)>>), Arr(<<Num(-1), Num(1)>>),
     Arr(<<Num(2), Num(3)>>), Arr(<<Num(4), Num(5)>>)}

SizeChoices == {Undefined, Arr(<<Num(9)>>), Arr(<<Num(4), Num(9)>>)}

\* One fleet position: the ship ID and the two overrides given at its index.
\* Placeholders come without overrides, the ship without master data without
\* capacities.
Entries ==
    {e \in [id : ShipIdChoices, slots : SlotChoices, sizes : SizeChoices] :
        /\ e.id.n <= 0 => (e.slots = Undefined /\ e.sizes = Undefined)
        /\ e.id.n = 3 => e.sizes = Undefined}

Fleets == UNION {[1..n -> Entries] : n \in 0..MaxShips}

Column(f, field) == Arr([k \in 1..Len(f) |-> f[k][field]])

\* An optional array argument none of whose elements is given may as well
\* be left out.
Optional(arr) ==
    IF \A k \in 1..Len(arr.a) : arr.a[k] = Undefined THEN {arr, Undefined} ELSE {arr}

acc == Acc(totalPower, totalCapacity, noAirPowerCapacity, reconCapacity, exceptions)

SetAcc(a) ==
    /\ totalPower' = a.totalPower
    /\ totalCapacity' = a.totalCapacity
    /\ noAirPowerCapacity' = a.noAirPowerCapacity
    /\ reconCapacity' = a.reconCapacity
    /\ exceptions' = a.exceptions

inputs == <<enemyFleetShips, enemyShipSlots, enemySlotSizes>>

Init ==
    /\ \/ /\ enemyFleetShips \in {Undefined, Null}
          /\ enemyShipSlots = Undefined
          /\ enemySlotSizes = Undefined
       \/ \E f \in Fleets :
            /\ enemyFleetShips = Arr([k \in 1..Len(f) |-> f[k].id])
            /\ enemyShipSlots \in Optional(Column(f, "slots"))
            /\ enemySlotSizes \in Optional(Column(f, "sizes"))
    /\ pc = "call"
    /\ shipIdx = 0
    /\ slotIdx = 0
    /\ shipSlots = <<>>
    /\ totalPower = InitialAcc.totalPower
    /\ totalCapacity = InitialAcc.totalCapacity
    /\ noAirPowerCapacity = InitialAcc.noAirPowerCapacity
    /\ reconCapacity = InitialAcc.reconCapacity
    /\ exceptions = InitialAcc.exceptions
    /\ result = <<>>

\* No ship IDs: the short tuple is returned.
ReturnNoShips ==
    /\ pc = "call"
    /\ NoShipIds(enemyFleetShips)
    /\ exceptions' = Put(exceptions, "ship", Null)
    /\ result' = NoShipsResult(acc)
    /\ pc' = "done"
    /\ UNCHANGED <<inputs, shipIdx, slotIdx, shipSlots, totalPower,
                   totalCapacity, noAirPowerCapacity, reconCapacity>>

\* $.each starts.
StartScan ==
    /\ pc = "call"
    /\ ~NoShipIds(enemyFleetShips)
    /\ pc' = "ship"
    /\ UNCHANGED <<inputs, shipIdx, slotIdx, shipSlots, totalPower, totalCapacity,
                   noAirPowerCapacity, reconCapacity, exceptions, result>>

\* The callback of ship shipIdx, up to its slot loop.
EachShip ==
    /\ pc = "ship"
    /\ shipIdx < Len(enemyFleetShips.a)
    /\ LET h == ShipHead(acc, enemyFleetShips, enemyShipSlots, shipIdx)
       IN  /\ SetAcc(h.acc)
           /\ IF h.loop /\ h.slots # <<>>
              THEN pc' = "slot" /\ shipSlots' = h.slots /\ shipIdx' = shipIdx
              ELSE pc' = "ship" /\ shipSlots' = <<>> /\ shipIdx' = shipIdx + 1
    /\ slotIdx' = 0
    /\ UNCHANGED <<inputs, result>>

\* One iteration of the slot loop; after the last one the callback returns.
ForSlot ==
    /\ pc = "slot"
    /\ slotIdx < Len(shipSlots)
    /\ LET shipId == At(enemyFleetShips, shipIdx)
       IN  SetAcc(SlotBody(acc, enemySlotSizes, shipId, ShipMst(shipId),
                           shipSlots, shipIdx, slotIdx))
    /\ IF slotIdx + 1 < Len(shipSlots)
       THEN slotIdx' = slotIdx + 1 /\ UNCHANGED <<pc, shipIdx, shipSlots>>
       ELSE slotIdx' = 0 /\ pc' = "ship" /\ shipIdx' = shipIdx + 1 /\ shipSlots' = <<>>
    /\ UNCHANGED <<inputs, result>>

\* $.each is over: the full tuple is returned.
ReturnScan ==
    /\ pc = "ship"
    /\ shipIdx >= Len(enemyFleetShips.a)
    /\ result' = ScanResult(acc)
    /\ pc' = "done"
    /\ UNCHANGED <<inputs, shipIdx, slotIdx, shipSlots, totalPower, totalCapacity,
                   noAirPowerCapacity, reconCapacity, exceptions>>

Next == ReturnNoShips \/ StartScan \/ EachShip \/ ForSlot \/ ReturnScan

Spec == Init /\ [][Next]_vars

----------------------------------------------------------------------------
(* The whole call as a function of its arguments *)

RECURSIVE SlotLoop(_, _, _, _, _, _, _)
SlotLoop(a, sizes, shipId, shipMst, slots, i, j) ==
    IF j >= Len(slots) THEN a
    ELSE SlotLoop(SlotBody(a, sizes, shipId, shipMst, slots, i, j),
                  sizes, shipId, shipMst, slots, i, j + 1)

RECURSIVE Each(_, _, _, _, _)
Each(a, fleet, slots, sizes, i) ==
    IF i >= Len(fleet.a) THEN a
    ELSE LET h == ShipHead(a, fleet, slots, i)
             b == IF h.loop
                  THEN SlotLoop(h.acc, sizes, At(fleet, i), ShipMst(At(fleet, i)),
                                h.slots, i, 0)
                  ELSE h.acc
         IN  Each(b, fleet, slots, sizes, i + 1)

enemyFighterPower(fleet, slots, sizes) ==
    IF NoShipIds(fleet)
    THEN NoShipsResult(InitialAcc)
    ELSE ScanResult(Each(InitialAcc, fleet, slots, sizes, 0))

----------------------------------------------------------------------------
(* Properties *)

Done == pc = "done"

Totals4(r) == <<r[1], r[2], r[3], r[4]>>

Absent(v) == v.t \in {"undefined", "null"}

ShortTuple == <<False, Num(0), Obj([k \in {"ship"} |-> Null])>>

EmptyTuple == <<False, Num(0), Num(0), Num(0), Obj(EmptyMap)>>

ZeroTuple == <<Num(0), Num(0), Num(0), Num(0), Obj(EmptyMap)>>

AllPlaceholders ==
    /\ enemyFleetShips.t = "array"
    /\ \A k \in 1..Len(enemyFleetShips.a) : enemyFleetShips.a[k].n \in {-1, 0}

\* The steps and the function agree on every call.
StepsComputeFunction ==
    Done => result = enemyFighterPower(enemyFleetShips, enemyShipSlots, enemySlotSizes)

\* C1, as stated: a call whose shipIds is absent (undefined or null) or is an
\* empty sequence returns exactly (false, 0, {ship: null}).
C1_AbsentOrEmptyGivesShortTuple ==
    (Done /\ (Absent(enemyFleetShips) \/ enemyFleetShips = Arr(<<>>)))
        => result = ShortTuple

\* C1, amended: a call whose shipIds is absent (undefined or null) returns
\* exactly (false, 0, {ship: null}); a call whose shipIds is an empty sequence
\* returns the five-element tuple (false, 0, 0, 0, {}).
C1_AbsentGivesShortTuple ==
    Done => /\ Absent(enemyFleetShips) => result = ShortTuple
            /\ enemyFleetShips = Arr(<<>>) => result = EmptyTuple

C1_Witness == Done /\ enemyFleetShips = Undefined /\ result = ShortTuple

----------------------------------------------------------------------------
(* The step about to be taken *)

AtShip == pc = "ship" /\ shipIdx < Len(enemyFleetShips.a)

AtSlot == pc = "slot"

curShipId == At(enemyFleetShips, shipIdx)

curShipMst == ShipMst(curShipId)

curShipKey == ToKey(curShipId.n)

curGearId == shipSlots[slotIdx + 1]

curGearMst == slotitem(curGearId.n)

curGearKey == ToKey(curGearId.n)

curCapacity == Capacity(enemySlotSizes, curShipMst, shipIdx, slotIdx)

\* The anti-air stat as a number: 0 when the master has none.
StatOf(gearMst) == IF gearMst.api_tyku.t = "number" THEN gearMst.api_tyku.n ELSE 0

\* exc[shipKey][gearKey], undefined when there is no such entry.
GearEntry(exc, sk, gk) ==
    IF sk \in DOMAIN exc.m /\ exc.m[sk].t = "object" /\ gk \in DOMAIN exc.m[sk].m
    THEN exc.m[sk].m[gk]
    ELSE Undefined

TotalsUnchanged ==
    UNCHANGED <<totalPower, totalCapacity, noAirPowerCapacity, reconCapacity>>

ShipSkipped == pc' = "ship" /\ shipIdx' = shipIdx + 1

\* C5: a ship without master data gets exceptions[shipId] = null, a ship with
\* master data whose slot layout (the override at its index, else the master's
\* default) is no array gets exceptions[shipId] = {}; either way the ship is
\* skipped and leaves the four totals as they were.
C5_UnresolvedShipIsSkipped ==
    [][(AtShip /\ ~IsPlaceholder(curShipId)) =>
        /\ ~Truthy(curShipMst) =>
              /\ curShipKey \in DOMAIN exceptions'.m
              /\ exceptions'.m[curShipKey] = Null
              /\ TotalsUnchanged
              /\ ShipSkipped
        /\ (Truthy(curShipMst)
              /\ ~IsArray(ShipSlotsOf(enemyShipSlots, curShipMst, shipIdx))) =>
              /\ curShipKey \in DOMAIN exceptions'.m
              /\ exceptions'.m[curShipKey] = Obj(EmptyMap)
              /\ TotalsUnchanged
              /\ ShipSkipped
      ]_vars

C5_Witness ==
    /\ Done
    /\ enemyFleetShips = Arr(<<Num(3), Num(1)>>)
    /\ enemyShipSlots = Undefined
    /\ result = <<False, Num(0), Num(0), Num(0),
                  Obj([k \in {"1", "3"} |-> IF k = "3" THEN Null ELSE Obj(EmptyMap)])>>

----------------------------------------------------------------------------
(* Slot positions and capacities *)

\* The slot layout of the ship being scanned, before the placeholders are
\* dropped.
curLayout == ShipSlotsOf(enemyShipSlots, curShipMst, shipIdx).a

\* The position (from 0) that the gear being scanned has in curLayout.
curOriginalIdx ==
    CHOOSE k \in 0..(Len(curLayout) - 1) :
        /\ Positive(curLayout[k + 1])
        /\ Cardinality({m \in 1..(k + 1) : Positive(curLayout[m])}) = slotIdx + 1

\* C8, as stated: the capacity looked up for a gear is the one at the index
\* the gear has in the unfiltered slot sequence.
C8_CapacityAtOriginalPosition ==
    AtSlot => curCapacity = Capacity(enemySlotSizes, curShipMst, shipIdx, curOriginalIdx)

\* C9, as stated: the capacity of slot slotIdx of ship i is the override entry
\* at [i][slotIdx] if present and else the master's default at slotIdx.
C9_CapacityFallsBackPerSlot ==
    AtSlot => curCapacity = CapacityPerSlot(enemySlotSizes, curShipMst, shipIdx, slotIdx)

CountedCapacity(tc, na, rc) == tc.n + na.n + rc.n

\* C9, amended: the capacity of slot slotIdx of ship i is the entry at slotIdx
\* of ship i's capacity override sequence whenever ship i has one, and the
\* entry at slotIdx of the master's default capacities only when ship i has no
\* override sequence.  So a fighter-type or recon gear in a slot the override
\* sequence has no entry for gets the missing-capacity exception and counts
\* nothing, also when the master default has an entry for that slot.
C9_CapacityFallsBackPerShip ==
    [][(AtSlot /\ Truthy(curGearMst)
           /\ (IsFighter(curGearMst) \/ IsRecon(curGearMst))) =>
        LET override == At(enemySlotSizes, shipIdx)
            used     == IF IsArray(override)
                        THEN At(override, slotIdx)
                        ELSE At(curShipMst.api_maxeq, slotIdx)
        IN  /\ used # Undefined =>
                  /\ CountedCapacity(totalCapacity', noAirPowerCapacity', reconCapacity')
                       = CountedCapacity(totalCapacity, noAirPowerCapacity, reconCapacity)
                           + used.n
                  /\ exceptions' = exceptions
            /\ used = Undefined =>
                  /\ TotalsUnchanged
                  /\ GearEntry(exceptions', curShipKey, curGearKey) # Undefined
      ]_vars

\* Ship 1 has default capacities (9, 4, 0) and an override of one entry: the
\* recon plane in its second slot has no capacity.
C9_Witness ==
    /\ Done
    /\ enemyFleetShips = Arr(<<Num(1)>>)
    /\ enemyShipSlots = Arr(<<Arr(<<Num(2), Num(3)>>)>>)
    /\ enemySlotSizes = Arr(<<Arr(<<Num(9)>>)>>)
    /\ result = <<False, Num(0), Num(9), Num(0),
                  Obj([k \in {"1"} |-> Obj([g \in {"3"} |-> Str("recon")])])>>

----------------------------------------------------------------------------
(* The totals and the exception map of a whole call *)

RECURSIVE Sum(_, _)
Sum(f, S) ==
    IF S = {} THEN 0
    ELSE LET x == CHOOSE y \in S : TRUE IN f[x] + Sum(f, S \ {x})

\* The ships of the fleet (positions from 0) that are no placeholders.
Ships ==
    {i \in 0..(Len(enemyFleetShips.a) - 1) : ~IsPlaceholder(At(enemyFleetShips, i))}

MstOf(i) == ShipMst(At(enemyFleetShips, i))

\* The slot layout of ship i, <<>> when the ship or its layout is unknown.
LayoutOf(i) ==
    IF ~Truthy(MstOf(i)) THEN <<>>
    ELSE LET ss == ShipSlotsOf(enemyShipSlots, MstOf(i), i)
         IN  IF IsArray(ss) THEN ss.a ELSE <<>>

\* The slots (ship, position from 0 in the layout) that hold a fighter-type
\* gear with stat > 0 and have a capacity.
PowerSlots ==
    {s \in UNION {{<<i, k>> : k \in 0..(Len(LayoutOf(i)) - 1)} : i \in Ships} :
        LET g == LayoutOf(s[1])[s[2] + 1]
        IN  /\ Positive(g)
            /\ Truthy(slotitem(g.n))
            /\ IsFighter(slotitem(g.n))
            /\ StatOf(slotitem(g.n)) > 0
            /\ Capacity(enemySlotSizes, MstOf(s[1]), s[1], s[2]) # Undefined}

SlotCapacity == [s \in PowerSlots |-> Capacity(enemySlotSizes, MstOf(s[1]), s[1], s[2]).n]

SlotPower ==
    [s \in PowerSlots |->
        FloorSqrtTimes(SlotCapacity[s], StatOf(slotitem(LayoutOf(s[1])[s[2] + 1].n)))]

\* C3, as stated: totalPower is the sum of floor(sqrt(capacity) * stat) and
\* totalCapacity the sum of capacity over the slots of resolvable ships that
\* hold a resolvable fighter-type gear with stat > 0 and have a resolvable
\* capacity (false counting as the empty sum).
C3_TotalsAreSumsOverSlots ==
    (Done /\ enemyFleetShips.t = "array")
        => /\ ToNumber(result[1]) = Sum(SlotPower, PowerSlots)
           /\ result[2] = Num(Sum(SlotCapacity, PowerSlots))

\* The slots of ship i that the scan visits: the positive gear IDs, renumbered.
ScannedOf(i) == FilterPositive(LayoutOf(i))

\* Slot j of the scanned slots of ship i lacks gear master data, or holds a
\* fighter-type or recon gear and lacks the capacity the scan looks up.
GearUnresolved(i, j) ==
    LET gearMst == slotitem(ScannedOf(i)[j + 1].n)
    IN  \/ ~Truthy(gearMst)
        \/ /\ IsFighter(gearMst) \/ IsRecon(gearMst)
           /\ Capacity(enemySlotSizes, MstOf(i), i, j) = Undefined

LayoutUnknown(i) ==
    Truthy(MstOf(i)) /\ ~IsArray(ShipSlotsOf(enemyShipSlots, MstOf(i), i))

ShipUnresolved(i) ==
    \/ ~Truthy(MstOf(i))
    \/ LayoutUnknown(i)
    \/ \E j \in 0..(Len(ScannedOf(i)) - 1) : GearUnresolved(i, j)

KeyOfShip(i) == ToKey(At(enemyFleetShips, i).n)

UnresolvedShipKeys == {KeyOfShip(i) : i \in {k \in Ships : ShipUnresolved(k)}}

UnresolvedGearKeys(sk) ==
    UNION {{ToKey(ScannedOf(i)[j + 1].n) :
               j \in {k \in 0..(Len(ScannedOf(i)) - 1) : GearUnresolved(i, k)}} :
           i \in {k \in Ships : KeyOfShip(k) = sk}}

\* C4, as stated: in the returned exception map the ship keys are exactly the
\* ships with an unresolved input, a ship without master data maps to null,
\* and the gear keys under a ship are exactly its gears with an unresolved
\* input: nothing recorded during the scan is lost.
C4_ExceptionsAreExactlyTheUnresolved ==
    (Done /\ enemyFleetShips.t = "array")
        => LET e == result[5].m
           IN  /\ DOMAIN e = UnresolvedShipKeys
               /\ \A sk \in DOMAIN e :
                     IF e[sk].t = "object"
                     THEN DOMAIN e[sk].m = UnresolvedGearKeys(sk)
                     ELSE e[sk] = Null

----------------------------------------------------------------------------
(* Ship order *)

Perms(n) == {p \in [1..n -> 1..n] : \A a, b \in 1..n : p[a] = p[b] => a = b}

\* The array with the element of position p[k] at position k.
Permuted(v, p, n) ==
    IF v.t = "array" THEN Arr([k \in 1..n |-> At(v, p[k] - 1)]) ELSE v

\* C7: the four totals of a call are those of every call with the ships in
\* another order and the two override arrays reordered alike.
C7_TotalsIgnoreShipOrder ==
    (Done /\ enemyFleetShips.t = "array")
        => LET n == Len(enemyFleetShips.a)
           IN  \A p \in Perms(n) :
                  Totals4(enemyFighterPower(Permuted(enemyFleetShips, p, n),
                                            Permuted(enemyShipSlots, p, n),
                                            Permuted(enemySlotSizes, p, n)))
                    = Totals4(result)

\* Ship 1 adds floor(sqrt(4) * 10) = 20 and ship 2 floor(sqrt(9) * 10) = 30.
C7_Witness ==
    /\ Done
    /\ enemyFleetShips = Arr(<<Num(1), Num(2)>>)
    /\ enemyShipSlots = Arr(<<Arr(<<Num(1)>>), Undefined>>)
    /\ enemySlotSizes = Arr(<<Arr(<<Num(4), Num(9)>>), Arr(<<Num(9)>>)>>)
    /\ Totals4(result) = <<Num(50), Num(13), Num(0), Num(0)>>

====
